---- MODULE Spec2Model ----
(***************************************************************************)
(* Model of pymisp/tools/elfobject.py: ELFObject, ELFSectionObject and     *)
(* make_elf_objects.                                                       *)
(*                                                                         *)
(* Strings that the code splits are sequences of one-character strings.    *)
(* The lief descriptor is an external input: its header fields and its     *)
(* sections are revealed when the code reads them and are recorded in      *)
(* elf_header and elf_sections.  The binding renders every enum value in   *)
(* the same format, qualifier, fixed when the library is loaded.           *)
(***************************************************************************)
EXTENDS Integers, Sequences, FiniteSets

VARIABLES HAS_PYDEEP, qualifier, caller, pseudofile, filepath, parsed, parse_result,
          elf, elf_header, elf_sections, pc, raised, uuids, attributes,
          references, sections, pos, s, misp_file, elf_sections_out

vars == <<HAS_PYDEEP, qualifier, caller, pseudofile, filepath, parsed, parse_result,
          elf, elf_header, elf_sections, pc, raised, uuids, attributes,
          references, sections, pos, s, misp_file, elf_sections_out>>

-----------------------------------------------------------------------------
(* Bounds *)

\* Largest number of sections the parser reports for one binary.
MaxSections == 2

-----------------------------------------------------------------------------
(* Python values handed to ELFObject.__init__.  The code reads only the    *)
(* type (isinstance) and the truth value of an argument; n is the length   *)
(* of a bytes/list/str value and the value of an int.                      *)

PyNone == [type |-> "NoneType", n |-> 0]
PyVal(t, k) == [type |-> t, n |-> k]

\* bool(v) of Python: None, 0 and empty containers are false; other
\* objects (BytesIO, Path, lief.ELF.Binary) are true.
Truthy(v) ==
    CASE v.type = "NoneType" -> FALSE
      [] v.type \in {"bytes", "list", "int", "str"} -> v.n # 0
      [] OTHER -> TRUE

PseudofileValues ==
    { PyVal("BytesIO", 1), PyVal("bytes", 0), PyVal("bytes", 1),
      PyVal("list", 0), PyVal("list", 1), PyVal("int", 0), PyVal("int", 1),
      PyVal("str", 1) }

FilepathValues == { PyVal("str", 0), PyVal("str", 1) }

ParsedValues == { PyVal("Binary", 1), PyVal("int", 0), PyVal("int", 1),
                  PyVal("str", 0), PyVal("str", 1) }

\* The extractor is given one of {parsed, filepath, pseudofile}, or nothing.
Arguments ==
    { [pseudofile |-> v, filepath |-> PyNone, parsed |-> PyNone] : v \in PseudofileValues }
    \cup { [pseudofile |-> PyNone, filepath |-> v, parsed |-> PyNone] : v \in FilepathValues }
    \cup { [pseudofile |-> PyNone, filepath |-> PyNone, parsed |-> v] : v \in ParsedValues }
    \cup { [pseudofile |-> PyNone, filepath |-> PyNone, parsed |-> PyNone] }

-----------------------------------------------------------------------------
(* Rendered classification strings: str() of a lief enum value.            *)

Sep == "."

RECURSIVE Join(_)
\* The components joined with the namespace separator.
Join(parts) ==
    IF Len(parts) = 0 THEN <<>>
    ELSE IF Len(parts) = 1 THEN parts[1]
    ELSE parts[1] \o <<Sep>> \o Join(Tail(parts))

\* Namespace qualifications a binding may render in front of the label:
\* none ("X"), the enum's name ("T.X"), or its namespace too ("E.T.X").
Qualifiers == { <<>>, << <<"T">> >>, << <<"E">>, <<"T">> >> }

\* str(value) of the enum value with this label.
Rendered(label) == Join(Append(qualifier, label))

FileTypes == { Rendered(<<"X">>) }
MachineTypes == { Rendered(<<"A">>) }
OsAbis == { Rendered(<<"O">>) }
SectionTypes == { Rendered(<<"P">>) }
SectionFlagLists ==
    { <<>>, <<Rendered(<<"W">>)>>, <<Rendered(<<"W">>), Rendered(<<"R">>)>> }

RECURSIVE SplitStr(_, _, _)
\* str.split('.'): the components between separators, empty ones included.
SplitStr(str, cur, acc) ==
    IF str = <<>> THEN Append(acc, cur)
    ELSE IF Head(str) = Sep THEN SplitStr(Tail(str), <<>>, Append(acc, cur))
    ELSE SplitStr(Tail(str), Append(cur, Head(str)), acc)

Split(str) == SplitStr(str, <<>>, <<>>)

\* str(x).split('.', 1)[1]: everything after the first separator.
EnumLabelAfterFirst(str) ==
    LET parts == Split(str)
    IN  IF Len(parts) >= 2
        THEN [ok |-> TRUE, val |-> Join(Tail(parts))]
        ELSE [ok |-> FALSE, val |-> <<>>]

\* str(x).split('.')[1]: the second component; IndexError when there is none.
EnumLabel(str) ==
    LET parts == Split(str)
    IN  IF Len(parts) >= 2
        THEN [ok |-> TRUE, val |-> parts[2]]
        ELSE [ok |-> FALSE, val |-> <<>>]

-----------------------------------------------------------------------------
(* Attribute values.  Every value has the same shape so that attributes    *)
(* of different kinds can be compared.                                     *)

StrValue(str) == [str |-> str, num |-> 0, alg |-> "", data |-> <<>>]
NumValue(k) == [str |-> <<>>, num |-> k, alg |-> "", data |-> <<>>]
\* hashlib and pydeep are external: a digest is the term alg(data), equal to
\* another digest exactly when the algorithm and the bytes are equal.
Digest(algorithm, bytes) == [str |-> <<>>, num |-> 0, alg |-> algorithm, data |-> bytes]

Attr(n, v) == [name |-> n, value |-> v]

NoError == [type |-> "", msg |-> ""]
Error(t, m) == [type |-> t, msg |-> m]

-----------------------------------------------------------------------------
(* Sections reported by the parser.                                        *)

SectionName == <<".", "t">>

\* size, content and entropy as the parser reports them; the content need
\* not be as long as the reported size.
SectionBodies ==
    { [size |-> 0, content |-> <<>>, entropy |-> 0],
      [size |-> 0, content |-> <<7>>, entropy |-> 0],
      [size |-> 1, content |-> <<7>>, entropy |-> 0],
      [size |-> 1, content |-> <<7, 9>>, entropy |-> 1],
      [size |-> 2, content |-> <<>>, entropy |-> 0] }

Section(n, t, f, b) ==
    [name |-> n, type |-> t, flags_list |-> f,
     size |-> b.size, content |-> b.content, entropy |-> b.entropy]

NamedSections ==
    { Section(SectionName, t, f, b) :
        t \in SectionTypes, f \in SectionFlagLists, b \in SectionBodies }

\* A section with an empty name; its other fields are never read.
UnnamedSections ==
    { Section(<<>>, <<"P">>, <<>>, [size |-> 1, content |-> <<7>>, entropy |-> 0]) }

-----------------------------------------------------------------------------
(* ELFSectionObject *)

\* self.__data = bytes(self.__section.content), truncated to the reported size.
SectionDataTruncated(section) ==
    IF Len(section.content) > section.size
    THEN SubSeq(section.content, 1, section.size)
    ELSE section.content

\* self.__data = bytes(self.__section.content)
SectionData(section) == section.content

\* Hashes emitted whenever there is content.
HashesEmittedForContent(section) == Len(section.content) > 0

\* int(self.__section.size) > 0
HashesEmitted(section) == section.size > 0

\* The fuzzy hash emitted without looking at the capability flag.
SsdeepAlways == TRUE

\* if HAS_PYDEEP
SsdeepEnabled == HAS_PYDEEP

FlagAttributes(flags) ==
    [i \in 1..Len(flags) |-> Attr("flag", StrValue(EnumLabel(flags[i]).val))]

\* ELFSectionObject.generate_attributes raises IndexError when a rendered
\* enum has no second component.
SectionRaises(section) ==
    \/ ~EnumLabel(section.type).ok
    \/ \E i \in 1..Len(section.flags_list) : ~EnumLabel(section.flags_list[i]).ok

\* The attributes ELFSectionObject.generate_attributes adds, in order.
SectionAttributes(section, data) ==
    <<Attr("name", StrValue(section.name)),
      Attr("type", StrValue(EnumLabel(section.type).val))>>
    \o FlagAttributes(section.flags_list)
    \o <<Attr("size-in-bytes", NumValue(section.size))>>
    \o (IF HashesEmitted(section)
        THEN <<Attr("entropy", NumValue(section.entropy)),
               Attr("md5", Digest("md5", data)),
               Attr("sha1", Digest("sha1", data)),
               Attr("sha256", Digest("sha256", data)),
               Attr("sha512", Digest("sha512", data))>>
             \o (IF SsdeepEnabled
                 THEN <<Attr("ssdeep", Digest("ssdeep", data))>>
                 ELSE <<>>)
        ELSE <<>>)

\* ELFSectionObject(section): the constructed record.
ELFSectionObject(section, uuid) ==
    [uuid |-> uuid, section |-> section, data |-> SectionData(section),
     attributes |-> SectionAttributes(section, SectionData(section))]

-----------------------------------------------------------------------------
(* ELFObject.__init__ *)

ParserResults == {"None", "Binary"}

\* Lines 50-70: which descriptor self.__elf is bound to, or the error
\* raised.  e is what lief.ELF.parse returns if it is called.
Resolve(pf, fp, pa, e) ==
    IF Truthy(pf)
    THEN IF pf.type \in {"BytesIO", "bytes", "list"}
         THEN IF e = "None"
              THEN [elf |-> "unset", parse |-> e,
                    raised |-> Error("InvalidMISPObject", "Unable to parse pseudofile")]
              ELSE [elf |-> "Binary", parse |-> e, raised |-> NoError]
         ELSE [elf |-> "unset", parse |-> "not called",
               raised |-> Error("InvalidMISPObject", "Pseudo file can be BytesIO or bytes")]
    ELSE IF Truthy(fp)
    THEN IF e = "None"
         THEN [elf |-> "unset", parse |-> e, raised |-> NoError]
         ELSE [elf |-> "Binary", parse |-> e, raised |-> NoError]
    ELSE IF Truthy(pa)
    THEN IF pa.type = "Binary"
         THEN [elf |-> "Binary", parse |-> "not called", raised |-> NoError]
         ELSE [elf |-> "unset", parse |-> "not called",
               raised |-> Error("InvalidMISPObject", "Not a lief.ELF.Binary")]
    ELSE [elf |-> "unset", parse |-> "not called", raised |-> NoError]

\* Lines 43-71, up to the call of generate_attributes.
Construct(who, pf, fp, pa, e) ==
    LET r == Resolve(pf, fp, pa, e)
    IN  /\ pc = "start"
        /\ caller' = who
        /\ pseudofile' = pf
        /\ filepath' = fp
        /\ parsed' = pa
        /\ parse_result' = r.parse
        /\ elf' = r.elf
        /\ raised' = r.raised
        /\ uuids' = uuids + 1
        /\ pc' = IF r.raised = NoError THEN "L75" ELSE "raised"
        /\ UNCHANGED <<HAS_PYDEEP, qualifier, elf_header, elf_sections, attributes,
                       references, sections, pos, s, misp_file, elf_sections_out>>

\* ELFObject(parsed=..., filepath=..., pseudofile=...)
NewELFObject ==
    \E a \in Arguments, e \in ParserResults :
        Construct("ELFObject", a.pseudofile, a.filepath, a.parsed, e)

\* make_elf_objects, line 31: ELFObject(parsed=lief_parsed, ...)
MakeElfObjects ==
    \E lief_parsed \in ParsedValues, e \in ParserResults :
        Construct("make_elf_objects", PyNone, PyNone, lief_parsed, e)

-----------------------------------------------------------------------------
(* ELFObject.generate_attributes *)

Raise(err) ==
    /\ raised' = err
    /\ pc' = "raised"

\* self.add_attribute(name, value=str(<enum>).split('.')[1]) at location at;
\* reading self.__elf fails when it was never bound.
AddEnumAttribute(at, next, field, name, renderings) ==
    /\ pc = at
    /\ IF elf = "unset"
       THEN /\ Raise(Error("AttributeError", "_ELFObject__elf"))
            /\ UNCHANGED <<elf_header, attributes>>
       ELSE \E str \in renderings :
              /\ elf_header' = [elf_header EXCEPT ![field] = str]
              /\ IF EnumLabel(str).ok
                 THEN /\ attributes' = Append(attributes, Attr(name, StrValue(EnumLabel(str).val)))
                      /\ pc' = next
                      /\ UNCHANGED raised
                 ELSE /\ Raise(Error("IndexError", "list index out of range"))
                      /\ UNCHANGED attributes

Entrypoint == 4096

\* Line 75
AddType ==
    /\ AddEnumAttribute("L75", "L76", "file_type", "type", FileTypes)
    /\ UNCHANGED <<HAS_PYDEEP, qualifier, caller, pseudofile, filepath, parsed, parse_result,
                   elf, elf_sections, uuids, references, sections, pos, s,
                   misp_file, elf_sections_out>>

\* Line 76
AddEntrypoint ==
    /\ pc = "L76"
    /\ attributes' = Append(attributes, Attr("entrypoint-address", NumValue(Entrypoint)))
    /\ pc' = "L77"
    /\ UNCHANGED <<HAS_PYDEEP, qualifier, caller, pseudofile, filepath, parsed, parse_result,
                   elf, elf_header, elf_sections, raised, uuids, references,
                   sections, pos, s, misp_file, elf_sections_out>>

\* Line 77
AddArch ==
    /\ AddEnumAttribute("L77", "L78", "machine_type", "arch", MachineTypes)
    /\ UNCHANGED <<HAS_PYDEEP, qualifier, caller, pseudofile, filepath, parsed, parse_result,
                   elf, elf_sections, uuids, references, sections, pos, s,
                   misp_file, elf_sections_out>>

\* Lines 78-82: the last header attribute, then self.sections = [], pos = 0.
AddOsAbi ==
    /\ AddEnumAttribute("L78", "L83", "identity_os_abi", "os_abi", OsAbis)
    /\ sections' = <<>>
    /\ pos' = 0
    /\ UNCHANGED <<HAS_PYDEEP, qualifier, caller, pseudofile, filepath, parsed, parse_result,
                   elf, elf_sections, uuids, references, s,
                   misp_file, elf_sections_out>>

\* Lines 83-85: the parser yields a section with an empty name; it is skipped.
SkipUnnamed ==
    /\ pc = "L83"
    /\ Len(elf_sections) < MaxSections
    /\ \E section \in UnnamedSections :
         elf_sections' = Append(elf_sections, section)
    /\ UNCHANGED <<HAS_PYDEEP, qualifier, caller, pseudofile, filepath, parsed, parse_result,
                   elf, elf_header, pc, raised, uuids, attributes, references,
                   sections, pos, s, misp_file, elf_sections_out>>

\* Lines 83-86: the parser yields a named section and its ELFSectionObject
\* is constructed (lines 95-117).
NewSection ==
    /\ pc = "L83"
    /\ Len(elf_sections) < MaxSections
    /\ \E section \in NamedSections :
         /\ elf_sections' = Append(elf_sections, section)
         /\ uuids' = uuids + 1
         /\ IF SectionRaises(section)
            THEN /\ Raise(Error("IndexError", "list index out of range"))
                 /\ UNCHANGED s
            ELSE /\ s' = <<ELFSectionObject(section, uuids + 1)>>
                 /\ pc' = "L87"
                 /\ UNCHANGED raised
    /\ UNCHANGED <<HAS_PYDEEP, qualifier, caller, pseudofile, filepath, parsed, parse_result,
                   elf, elf_header, attributes, references, sections, pos,
                   misp_file, elf_sections_out>>

\* f'Section {pos} of ELF', numbered by the parser's own section index.
SectionLabelByInputIndex(p) == [text |-> "Section {} of ELF", index |-> Len(elf_sections) - 1]

\* f'Section {pos} of ELF'
SectionLabel(p) == [text |-> "Section {} of ELF", index |-> p]

Reference(uuid, kind, label) == [target |-> uuid, kind |-> kind, label |-> label]

\* Line 87
AddSectionReference ==
    /\ pc = "L87"
    /\ references' = Append(references, Reference(s[1].uuid, "includes", SectionLabel(pos)))
    /\ pc' = "L88"
    /\ UNCHANGED <<HAS_PYDEEP, qualifier, caller, pseudofile, filepath, parsed, parse_result,
                   elf, elf_header, elf_sections, raised, uuids, attributes,
                   sections, pos, s, misp_file, elf_sections_out>>

\* Lines 88-89
AppendSection ==
    /\ pc = "L88"
    /\ pos' = pos + 1
    /\ sections' = Append(sections, s[1])
    /\ s' = <<>>
    /\ pc' = "L83"
    /\ UNCHANGED <<HAS_PYDEEP, qualifier, caller, pseudofile, filepath, parsed, parse_result,
                   elf, elf_header, elf_sections, raised, uuids, attributes,
                   references, misp_file, elf_sections_out>>

\* len(elf.sections), unnamed sections included.
NumberSectionsReported == Len(elf_sections)

\* len(self.sections)
NumberSections == Len(sections)

\* Line 90, reached when the parser's sections are exhausted (or there are
\* none, line 81); __init__ then returns.
AddNumberSections ==
    /\ pc = "L83"
    /\ attributes' = Append(attributes, Attr("number-sections", NumValue(NumberSections)))
    /\ pc' = IF caller = "make_elf_objects" THEN "L32" ELSE "done"
    /\ UNCHANGED <<HAS_PYDEEP, qualifier, caller, pseudofile, filepath, parsed, parse_result,
                   elf, elf_header, elf_sections, raised, uuids, references,
                   sections, pos, s, misp_file, elf_sections_out>>

-----------------------------------------------------------------------------
(* make_elf_objects, after the ELFObject is constructed *)

ElfUuid == 1

\* Line 32
AddFileReference ==
    /\ pc = "L32"
    /\ misp_file' = Append(misp_file,
                           Reference(ElfUuid, "includes", [text |-> "ELF indicators", index |-> 0]))
    /\ pc' = "L33"
    /\ UNCHANGED <<HAS_PYDEEP, qualifier, caller, pseudofile, filepath, parsed, parse_result,
                   elf, elf_header, elf_sections, raised, uuids, attributes,
                   references, sections, pos, s, elf_sections_out>>

\* Lines 33-36: the sections are copied in order and returned.
ReturnSections ==
    /\ pc = "L33"
    /\ elf_sections_out' = [i \in 1..Len(sections) |-> sections[i]]
    /\ pc' = "done"
    /\ UNCHANGED <<HAS_PYDEEP, qualifier, caller, pseudofile, filepath, parsed, parse_result,
                   elf, elf_header, elf_sections, raised, uuids, attributes,
                   references, sections, pos, s, misp_file>>

-----------------------------------------------------------------------------

Init ==
    /\ HAS_PYDEEP \in BOOLEAN
    /\ qualifier \in Qualifiers
    /\ caller = ""
    /\ pseudofile = PyNone
    /\ filepath = PyNone
    /\ parsed = PyNone
    /\ parse_result = "not called"
    /\ elf = "unset"
    /\ elf_header = [file_type |-> <<>>, machine_type |-> <<>>, identity_os_abi |-> <<>>]
    /\ elf_sections = <<>>
    /\ pc = "start"
    /\ raised = NoError
    /\ uuids = 0
    /\ attributes = <<>>
    /\ references = <<>>
    /\ sections = <<>>
    /\ pos = 0
    /\ s = <<>>
    /\ misp_file = <<>>
    /\ elf_sections_out = <<>>

Next ==
    \/ NewELFObject
    \/ MakeElfObjects
    \/ AddType
    \/ AddEntrypoint
    \/ AddArch
    \/ AddOsAbi
    \/ SkipUnnamed
    \/ NewSection
    \/ AddSectionReference
    \/ AppendSection
    \/ AddNumberSections
    \/ AddFileReference
    \/ ReturnSections

Spec == Init /\ [][Next]_vars

-----------------------------------------------------------------------------
(* Vocabulary of the properties *)

\* ELFObject.__init__ has returned.
Constructed == pc \in {"done", "L32", "L33"}

\* The section records that exist: those appended, then the one just built.
Objects == sections \o s

Count(attrs, n) == Cardinality({ i \in 1..Len(attrs) : attrs[i].name = n })

Values(attrs, n) ==
    LET Named(a) == a.name = n
        sel == SelectSeq(attrs, Named)
    IN  [i \in 1..Len(sel) |-> sel[i].value]

IsNamed(section) == section.name # <<>>

NamedReported == SelectSeq(elf_sections, IsNamed)

HasSeparator(str) == \E i \in 1..Len(str) : str[i] = Sep

RECURSIVE AfterLastSeparator(_)
\* What is left of a string once everything up to and including its last
\* separator is discarded.
AfterLastSeparator(str) ==
    IF str = <<>> \/ str[Len(str)] = Sep THEN <<>>
    ELSE Append(AfterLastSeparator(SubSeq(str, 1, Len(str) - 1)), str[Len(str)])

HashNames == {"md5", "sha1", "sha256", "sha512"}
ConditionalNames == HashNames \cup {"entropy", "ssdeep"}

-----------------------------------------------------------------------------
(* C1 *)

\* C1: once ELFObject is constructed, 'number-sections' is emitted once and
\* its value equals the number of section records, the number of 'includes'
\* references and the number of reported sections with a non-empty name; no
\* record and no reference is of a section with an empty name.
C1_SectionCount ==
    Constructed =>
        /\ Count(attributes, "number-sections") = 1
        /\ \A i \in 1..Len(attributes) :
               attributes[i].name = "number-sections" =>
                   /\ attributes[i].value.num = Len(sections)
                   /\ attributes[i].value.num = Len(references)
                   /\ attributes[i].value.num = Len(NamedReported)
        /\ \A i \in 1..Len(references) : references[i].kind = "includes"
        /\ \A i \in 1..Len(sections) : IsNamed(sections[i].section)
        /\ \A i \in 1..Len(references) :
               \E j \in 1..Len(sections) :
                   /\ sections[j].uuid = references[i].target
                   /\ IsNamed(sections[j].section)

C1_Witness ==
    /\ Constructed
    /\ Len(sections) >= 1
    /\ \E i \in 1..Len(elf_sections) : ~IsNamed(elf_sections[i])

-----------------------------------------------------------------------------
(* C2 *)

\* C2: a section record whose reported size is 0 has no 'entropy', 'md5',
\* 'sha1', 'sha256', 'sha512' or 'ssdeep' attribute, and has exactly one
\* 'name', 'type' and 'size-in-bytes' attribute.
C2_ZeroSizeNoHashes ==
    \A i \in 1..Len(Objects) :
        Objects[i].section.size = 0 =>
            /\ \A n \in ConditionalNames : Count(Objects[i].attributes, n) = 0
            /\ \A n \in {"name", "type", "size-in-bytes"} :
                   Count(Objects[i].attributes, n) = 1

C2_Witness ==
    /\ HAS_PYDEEP
    /\ \E i \in 1..Len(sections) :
           /\ sections[i].section.size = 0
           /\ sections[i].section.content # <<>>

-----------------------------------------------------------------------------
(* C3 *)

\* C3: a section record whose reported size is greater than 0 has exactly
\* one attribute for each of md5, sha1, sha256 and sha512, and its value is
\* that digest of the content the parser reported, whatever its length.
C3_DigestsOfContent ==
    \A i \in 1..Len(Objects) :
        Objects[i].section.size > 0 =>
            \A n \in HashNames :
                Values(Objects[i].attributes, n)
                    = <<Digest(n, Objects[i].section.content)>>

C3_Witness ==
    \E i \in 1..Len(sections) :
        /\ sections[i].section.size > 0
        /\ Len(sections[i].section.content) > sections[i].section.size

-----------------------------------------------------------------------------
(* C7 *)

EnumAttributeValues ==
    Values(attributes, "type") \o Values(attributes, "arch")
    \o Values(attributes, "os_abi")

\* C7: no emitted value of the binary's 'type', 'arch', 'os_abi' or of a
\* section's 'type' or 'flag' contains the namespace separator.
C7_NoSeparator ==
    /\ \A i \in 1..Len(EnumAttributeValues) : ~HasSeparator(EnumAttributeValues[i].str)
    /\ \A i \in 1..Len(Objects) :
           \A j \in 1..Len(Objects[i].attributes) :
               Objects[i].attributes[j].name \in {"type", "flag"} =>
                   ~HasSeparator(Objects[i].attributes[j].value.str)

C7_Witness ==
    /\ Constructed
    /\ Len(qualifier) = 2
    /\ \E i \in 1..Len(sections) : Count(sections[i].attributes, "flag") = 2

-----------------------------------------------------------------------------
(* C8 *)

\* The attributes of a section of non-zero size that do not depend on the
\* fuzzy-hash capability.
C8_Expected(o) ==
    <<Attr("name", StrValue(o.section.name)),
      Attr("type", StrValue(Values(o.attributes, "type")[1].str))>>
    \o [k \in 1..Len(o.section.flags_list) |->
            Attr("flag", StrValue(Values(o.attributes, "flag")[k].str))]
    \o <<Attr("size-in-bytes", NumValue(o.section.size)),
         Attr("entropy", NumValue(o.section.entropy)),
         Attr("md5", Digest("md5", o.section.content)),
         Attr("sha1", Digest("sha1", o.section.content)),
         Attr("sha256", Digest("sha256", o.section.content)),
         Attr("sha512", Digest("sha512", o.section.content))>>

NotSsdeep(a) == a.name # "ssdeep"

\* C8: a section record of non-zero size has an 'ssdeep' attribute exactly
\* when HAS_PYDEEP is true (then one, the fuzzy hash of the content); when
\* it is false the record is built without it, and its other attributes are
\* the same in both cases.
C8_SsdeepIffCapability ==
    \A i \in 1..Len(Objects) :
        Objects[i].section.size > 0 =>
            /\ Values(Objects[i].attributes, "ssdeep")
                 = (IF HAS_PYDEEP
                    THEN <<Digest("ssdeep", Objects[i].section.content)>>
                    ELSE <<>>)
            /\ SelectSeq(Objects[i].attributes, NotSsdeep) = C8_Expected(Objects[i])

C8_Witness ==
    /\ ~HAS_PYDEEP
    /\ Constructed
    /\ raised = NoError
    /\ \E i \in 1..Len(sections) : sections[i].section.size > 0

-----------------------------------------------------------------------------
(* C9 *)

\* C9: the i-th reference of the binary record is labelled
\* 'Section i-1 of ELF' and targets the i-th section record, which exists
\* with its attributes when the reference is added; the records are those
\* of the named sections in the parser's order; make_elf_objects returns
\* them in that order.
C9_ReferenceOrder ==
    /\ Len(references) <= Len(Objects)
    /\ Len(sections) <= Len(references)
    /\ \A i \in 1..Len(references) :
           /\ references[i].label = [text |-> "Section {} of ELF", index |-> i - 1]
           /\ references[i].target = Objects[i].uuid
           /\ Count(Objects[i].attributes, "size-in-bytes") = 1
    /\ \A i, j \in 1..Len(Objects) : i # j => Objects[i].uuid # Objects[j].uuid
    /\ Len(Objects) = Len(NamedReported)
    /\ \A i \in 1..Len(Objects) : Objects[i].section = NamedReported[i]
    /\ (caller = "make_elf_objects" /\ pc = "done") => elf_sections_out = sections

C9_Witness ==
    /\ caller = "make_elf_objects"
    /\ pc = "done"
    /\ Len(elf_sections_out) = 1
    /\ Len(elf_sections) = 2
    /\ ~IsNamed(elf_sections[1])

-----------------------------------------------------------------------------
(* C4, C5, C6 *)

Called == pc # "start"

\* Construction has ended: it returned or it raised.
Ended == pc \in {"raised", "done", "L32", "L33"}

\* C4: when pseudofile is given and is not a BytesIO, bytes or list (an int,
\* whatever its value), construction fails with InvalidMISPObject and
\* nothing has been emitted.
C4_UnsupportedPseudofileRejected ==
    (Ended /\ pseudofile.type \notin {"NoneType", "BytesIO", "bytes", "list"}) =>
        /\ raised.type = "InvalidMISPObject"
        /\ attributes = <<>>
        /\ references = <<>>

\* C5: when lief.ELF.parse returns nothing, for a pseudofile or for a file
\* path, construction fails with InvalidMISPObject 'Unable to parse' and
\* generate_attributes is not started.
C5_UnparsableRejected ==
    (Called /\ parse_result = "None") =>
        /\ raised.type = "InvalidMISPObject"
        /\ pc = "raised"

\* C6: when only parsed is given and it is not a lief.ELF.Binary,
\* construction fails with InvalidMISPObject and generate_attributes is not
\* started.
C6_WrongDescriptorRejected ==
    (/\ Called
     /\ parsed.type \notin {"NoneType", "Binary"}
     /\ pseudofile = PyNone
     /\ filepath = PyNone) =>
        /\ raised.type = "InvalidMISPObject"
        /\ pc = "raised"

-----------------------------------------------------------------------------
(* C10 *)

C10_Label(rendered, emitted) ==
    HasSeparator(rendered) => emitted = AfterLastSeparator(rendered)

\* C10: every emitted enum label (binary 'type', 'arch', 'os_abi'; section
\* 'type' and 'flag') is the rendered string with everything up to and
\* including its last separator discarded.
C10_LabelAfterLastSeparator ==
    /\ \A i \in 1..Len(Values(attributes, "type")) :
           C10_Label(elf_header.file_type, Values(attributes, "type")[i].str)
    /\ \A i \in 1..Len(Values(attributes, "arch")) :
           C10_Label(elf_header.machine_type, Values(attributes, "arch")[i].str)
    /\ \A i \in 1..Len(Values(attributes, "os_abi")) :
           C10_Label(elf_header.identity_os_abi, Values(attributes, "os_abi")[i].str)
    /\ \A i \in 1..Len(Objects) :
           /\ C10_Label(Objects[i].section.type,
                        Values(Objects[i].attributes, "type")[1].str)
           /\ \A k \in 1..Len(Objects[i].section.flags_list) :
                  C10_Label(Objects[i].section.flags_list[k],
                            Values(Objects[i].attributes, "flag")[k].str)

====
